---- MODULE Spec2Model ----
(***************************************************************************)
(* Fixed-income fund peer scoring (class FIPeerScoring, src/scoring.py;    *)
(* src/tmp_file.py carries the same class).                                *)
(*                                                                         *)
(* Conventions of the model                                                *)
(*  - An optional attribute is a tuple: NaN == <<>> is the missing value   *)
(*    (what pd.isna answers True for), <<v>> is the present value v.       *)
(*  - Region and sector labels are sequences of one-character strings, so  *)
(*    that str.lower() and the substring test `in` are computed.           *)
(*  - A weight is the rational n/d; the five weights share the denominator *)
(*    d: weights = [n |-> [component -> Nat], d |-> Nat].                  *)
(*  - peer_score, avg_peer_score and min_score are in hundredths of a      *)
(*    point (98.75 is 9875); component scores are in points (0..100).      *)
(*  - A DataFrame is the sequence of its rows; the empty DataFrame is <<>>.*)
(***************************************************************************)
EXTENDS Integers, Sequences, FiniteSets, TLC

VARIABLES
    state,            \* "new" | "ready" | "ZeroDivisionError": life of the scorer object
    weights,          \* self.weights
    op,               \* the method called last, "none" before any call
    supplied,         \* the five weights given to __init__
    all_funds_df,     \* argument: the fund universe
    target_fund_id,   \* argument of score_peers_for_fund
    firm_fund_ids,    \* argument of create_peer_groups_for_firm_funds
    min_score,        \* argument (hundredths)
    max_peers,        \* argument
    exclude_passive,  \* argument
    raised,           \* "none" | "ValueError": how the call ended
    results_df,       \* return value of score_peers_for_fund
    peer_groups,      \* return value of create_peer_groups_for_firm_funds; argument of the export
    args,             \* a component scorer's call: <<its name, first argument, second argument>>
    score,            \* return value of a component scorer
    pair,             \* the two funds given to calculate_peer_score
    pair_score,       \* return value of calculate_peer_score
    sheets            \* the sheets written by export_peer_groups_to_excel, in order

vars == <<state, weights, op, supplied, all_funds_df, target_fund_id, firm_fund_ids,
          min_score, max_peers, exclude_passive, raised, results_df, peer_groups,
          args, score, pair, pair_score, sheets>>

----------------------------------------------------------------------------
(* Bounds of the model *)

MaxFunds == 3

MaxTargets == 2

\* the largest fee band the scorers are asked about
MaxBand == 7

\* the longest fund identifier the export is given
MaxIdLen == 22

----------------------------------------------------------------------------
(* Values *)

NaN == <<>>

isna(x) == x = NaN

Components == <<"currency", "passive", "fee", "region", "sector">>

RECURSIVE SumOver(_, _)
SumOver(f, i) == IF i = 0 THEN 0 ELSE f[Components[i]] + SumOver(f, i - 1)

Sum(f) == SumOver(f, Len(Components))

Abs(x) == IF x < 0 THEN -x ELSE x

\* round(x, 2) of the rational n/d given in hundredths: nearest integer, ties to even.
Round(n, d) ==
    LET q == n \div d
        r == n % d
    IN  IF 2 * r < d THEN q
        ELSE IF 2 * r > d THEN q + 1
        ELSE IF q % 2 = 0 THEN q ELSE q + 1

UpperCase == <<"A","B","C","D","E","F","G","H","I","J","K","L","M",
               "N","O","P","Q","R","S","T","U","V","W","X","Y","Z">>

LowerCase == <<"a","b","c","d","e","f","g","h","i","j","k","l","m",
               "n","o","p","q","r","s","t","u","v","w","x","y","z">>

\* the lower-case letter of every upper-case letter
ToLower ==
    [c \in {UpperCase[i] : i \in DOMAIN UpperCase} |->
        LowerCase[CHOOSE i \in DOMAIN UpperCase : UpperCase[i] = c]]

LowerChar(c) == IF c \in DOMAIN ToLower THEN ToLower[c] ELSE c

\* str(x).lower()
Lower(s) == [i \in DOMAIN s |-> LowerChar(s[i])]

\* p in s
Contains(s, p) ==
    \E i \in 0 .. (Len(s) - Len(p)) : \A j \in 1 .. Len(p) : s[i + j] = p[j]

----------------------------------------------------------------------------
(* Labels *)

s_emerging == <<"e","m","e","r","g","i","n","g">>
s_developed == <<"d","e","v","e","l","o","p","e","d">>
s_Developed == <<"D","e","v","e","l","o","p","e","d">>
s_other == <<"o","t","h","e","r">>

s_government == <<"g","o","v","e","r","n","m","e","n","t">>
s_corporate == <<"c","o","r","p","o","r","a","t","e">>
s_securitized == <<"s","e","c","u","r","i","t","i","z","e","d">>
s_mixed == <<"m","i","x","e","d">>
s_sovereign == <<"s","o","v","e","r","e","i","g","n">>
s_municipal == <<"m","u","n","i","c","i","p","a","l">>
s_agency == <<"a","g","e","n","c","y">>
s_investment_grade == <<"i","n","v","e","s","t","m","e","n","t"," ","g","r","a","d","e">>
s_high_yield == <<"h","i","g","h"," ","y","i","e","l","d">>
s_credit == <<"c","r","e","d","i","t">>
s_mbs == <<"m","b","s">>
s_abs == <<"a","b","s">>
s_cmbs == <<"c","m","b","s">>
s_multi_sector == <<"m","u","l","t","i","-","s","e","c","t","o","r">>
s_diversified == <<"d","i","v","e","r","s","i","f","i","e","d">>
s_aggregate == <<"a","g","g","r","e","g","a","t","e">>

\* labels the scorers are also asked about: other spellings, unknown labels,
\* labels that hold several terms
s_Emerging == <<"E","m","e","r","g","i","n","g">>
s_OTHER == <<"O","T","H","E","R">>
s_unknown == <<"u","n","k","n","o","w","n">>
s_Unknown == <<"U","n","k","n","o","w","n">>
s_Corporate == <<"C","o","r","p","o","r","a","t","e">>
s_corporate_high_yield == <<"c","o","r","p","o","r","a","t","e"," ","h","i","g","h"," ","y","i","e","l","d">>
s_agency_mbs == <<"a","g","e","n","c","y"," ","m","b","s">>
s_equity == <<"e","q","u","i","t","y">>

\* the region and sector labels funds carry
Labels ==
    { s_emerging, s_developed, s_Developed, s_other,
      s_government, s_corporate, s_high_yield,
      s_Emerging, s_OTHER, s_unknown, s_Unknown,
      s_Corporate, s_corporate_high_yield, s_agency_mbs, s_equity,
      s_sovereign, s_securitized, s_mbs, s_mixed, s_aggregate }

\* str(x).lower() of every label, computed once
LowerOf == [s \in Labels |-> Lower(s)]

----------------------------------------------------------------------------
(* Component scorers *)

\* the comparison made before the test for missing values
currency_score_EqualFirst(fund1_currency, fund2_currency) ==
    IF fund1_currency = fund2_currency THEN 100
    ELSE IF isna(fund1_currency) \/ isna(fund2_currency) THEN 25 ELSE 0

currency_score(fund1_currency, fund2_currency) ==
    IF isna(fund1_currency) \/ isna(fund2_currency) THEN 25
    ELSE IF fund1_currency = fund2_currency THEN 100 ELSE 0

\* only the first flag tested for a missing value
passive_score_FirstOnly(fund1_passive, fund2_passive) ==
    IF isna(fund1_passive) THEN 50
    ELSE IF fund1_passive = fund2_passive THEN 100 ELSE 0

passive_score(fund1_passive, fund2_passive) ==
    IF isna(fund1_passive) \/ isna(fund2_passive) THEN 50
    ELSE IF fund1_passive = fund2_passive THEN 100 ELSE 0

\* a table that loses 20 a band
score_map_Steps20 == [band_diff \in 0..4 |-> 100 - 20 * band_diff]

score_map == [band_diff \in 0..4 |-> 100 - 25 * band_diff]

\* the difference taken with its sign
fee_band_score_Signed(fund1_band, fund2_band) ==
    IF isna(fund1_band) \/ isna(fund2_band) THEN 30
    ELSE LET band_diff == fund1_band[1] - fund2_band[1]
         IN  IF band_diff \in DOMAIN score_map THEN score_map[band_diff] ELSE 0

fee_band_score(fund1_band, fund2_band) ==
    IF isna(fund1_band) \/ isna(fund2_band) THEN 30
    ELSE LET band_diff == Abs(fund1_band[1] - fund2_band[1])
         IN  IF band_diff \in DOMAIN score_map THEN score_map[band_diff] ELSE 0

region_similarity ==
    ( <<s_emerging, s_other>> :> 40 ) @@ ( <<s_other, s_emerging>> :> 40 ) @@
    ( <<s_developed, s_other>> :> 40 ) @@ ( <<s_other, s_developed>> :> 40 ) @@
    ( <<s_emerging, s_developed>> :> 20 ) @@ ( <<s_developed, s_emerging>> :> 20 )

\* the labels compared as they are spelled
region_score_CaseSensitive(fund1_region, fund2_region) ==
    IF isna(fund1_region) \/ isna(fund2_region) THEN 30
    ELSE LET r1 == fund1_region[1]
             r2 == fund2_region[1]
         IN  IF r1 = r2 THEN 100
             ELSE IF <<r1, r2>> \in DOMAIN region_similarity
                  THEN region_similarity[<<r1, r2>>]
                  ELSE 0

region_score(fund1_region, fund2_region) ==
    IF isna(fund1_region) \/ isna(fund2_region) THEN 30
    ELSE LET r1 == LowerOf[fund1_region[1]]
             r2 == LowerOf[fund2_region[1]]
         IN  IF r1 = r2 THEN 100
             ELSE IF <<r1, r2>> \in DOMAIN region_similarity
                  THEN region_similarity[<<r1, r2>>]
                  ELSE 0

related_sectors ==
    << [main |-> s_government,  related |-> <<s_sovereign, s_municipal, s_agency>>],
       [main |-> s_corporate,   related |-> <<s_investment_grade, s_high_yield, s_credit>>],
       [main |-> s_securitized, related |-> <<s_mbs, s_abs, s_cmbs>>],
       [main |-> s_mixed,       related |-> <<s_multi_sector, s_diversified, s_aggregate>>] >>

\* the group's name looked for in the first label only, its terms in the second
sector_score_Directed(fund1_sector, fund2_sector) ==
    IF isna(fund1_sector) \/ isna(fund2_sector) THEN 30
    ELSE LET s1 == LowerOf[fund1_sector[1]]
             s2 == LowerOf[fund2_sector[1]]
         IN  IF s1 = s2 THEN 100
             ELSE IF \E g \in DOMAIN related_sectors :
                        /\ Contains(s1, related_sectors[g].main)
                        /\ \E k \in DOMAIN related_sectors[g].related :
                              Contains(s2, related_sectors[g].related[k])
                  THEN 60
                  ELSE 0

sector_score(fund1_sector, fund2_sector) ==
    IF isna(fund1_sector) \/ isna(fund2_sector) THEN 30
    ELSE LET s1 == LowerOf[fund1_sector[1]]
             s2 == LowerOf[fund2_sector[1]]
         IN  IF s1 = s2 THEN 100
             ELSE IF \E g \in DOMAIN related_sectors :
                        /\ Contains(s1, related_sectors[g].main)
                           \/ Contains(s2, related_sectors[g].main)
                        /\ \E k \in DOMAIN related_sectors[g].related :
                              \/ Contains(s1, related_sectors[g].related[k])
                              \/ Contains(s2, related_sectors[g].related[k])
                  THEN 60
                  ELSE 0

----------------------------------------------------------------------------
(* Aggregator *)

\* the region scorer given the sectors and the sector scorer the regions
component_scores_Swapped(fund1, fund2) ==
    [currency |-> currency_score(fund1.currency, fund2.currency),
     passive  |-> passive_score(fund1.is_passive, fund2.is_passive),
     fee      |-> fee_band_score(fund1.fee_band, fund2.fee_band),
     region   |-> region_score(fund1.primary_sector, fund2.primary_sector),
     sector   |-> sector_score(fund1.region, fund2.region)]

\* the scores dictionary
component_scores(fund1, fund2) ==
    [currency |-> currency_score(fund1.currency, fund2.currency),
     passive  |-> passive_score(fund1.is_passive, fund2.is_passive),
     fee      |-> fee_band_score(fund1.fee_band, fund2.fee_band),
     region   |-> region_score(fund1.region, fund2.region),
     sector   |-> sector_score(fund1.primary_sector, fund2.primary_sector)]

\* the weighted sum without the division by 100
calculate_peer_score_Unscaled(w, fund1, fund2) ==
    LET scores == component_scores(fund1, fund2)
    IN  [overall |-> [n |-> Sum([c \in DOMAIN scores |-> scores[c] * w.n[c]]),
                      d |-> w.d],
         scores  |-> scores]

\* overall_score as the rational n/d: sum of scores[c] * weights[c] / 100.
calculate_peer_score(w, fund1, fund2) ==
    LET scores == component_scores(fund1, fund2)
    IN  [overall |-> [n |-> Sum([c \in DOMAIN scores |-> scores[c] * w.n[c]]),
                      d |-> 100 * w.d],
         scores  |-> scores]

----------------------------------------------------------------------------
(* Constructor *)

\* abs(total_weight - 100) > 0.01, for total_weight = Sum(w.n) / w.d
NeedsNormalizing(w) == 100 * Abs(Sum(w.n) - 100 * w.d) > w.d

\* a rescaling that leaves out the factor 100
Normalized_Fractions(w) == [n |-> w.n, d |-> Sum(w.n)]

\* (self.weights[key] / total_weight) * 100 for every key
Normalized(w) == [n |-> [c \in DOMAIN w.n |-> 100 * w.n[c]], d |-> Sum(w.n)]

\* self.weights after __init__; the division raises when the total is 0
init_weights(w) ==
    IF ~NeedsNormalizing(w) THEN [raised |-> "none", weights |-> w]
    ELSE IF Sum(w.n) = 0 THEN [raised |-> "ZeroDivisionError", weights |-> w]
    ELSE [raised |-> "none", weights |-> Normalized(w)]

----------------------------------------------------------------------------
(* Peer finder *)

\* elementwise == of a column with a value: a missing value equals nothing
ColEq(a, b) == ~isna(a) /\ ~isna(b) /\ a = b

\* Python truth value of an optional flag: only False is falsy (NaN is truthy)
Truthy(x) == x # <<FALSE>>

\* a filter that ignores what the target is
FilterApplies_Always(excl, target_fund) == excl

\* the passive filter applies
FilterApplies(excl, target_fund) == excl /\ ~Truthy(target_fund.is_passive)

\* the category's funds with the target left in
same_category_funds_WithTarget(target_fund, df, excl) ==
    LET same == SelectSeq(df, LAMBDA row :
                    ColEq(row.morningstar_category, target_fund.morningstar_category))
    IN  IF FilterApplies(excl, target_fund)
        THEN SelectSeq(same, LAMBDA row : row.is_passive # <<TRUE>>)
        ELSE same

\* same_category_funds: other funds of the target's category, passive ones
\* removed when the filter applies
same_category_funds(target_fund, df, excl) ==
    LET same == SelectSeq(df, LAMBDA row :
                    /\ ColEq(row.morningstar_category, target_fund.morningstar_category)
                    /\ row.fund_id # target_fund.fund_id)
    IN  IF FilterApplies(excl, target_fund)
        THEN SelectSeq(same, LAMBDA row : row.is_passive # <<TRUE>>)
        ELSE same

\* one row of the result
result_row(w, target_fund, row) ==
    LET r == calculate_peer_score(w, target_fund, row)
    IN  [fund_id              |-> row.fund_id,
         fund_name            |-> row.fund_name,
         morningstar_category |-> target_fund.morningstar_category,
         peer_score           |-> Round(100 * r.overall.n, r.overall.d),
         currency             |-> row.currency,
         is_passive           |-> row.is_passive,
         fee_band             |-> row.fee_band,
         region               |-> row.region,
         primary_sector       |-> row.primary_sector,
         currency_score       |-> r.scores["currency"],
         passive_score        |-> r.scores["passive"],
         fee_score            |-> r.scores["fee"],
         region_score         |-> r.scores["region"],
         sector_score         |-> r.scores["sector"]]

\* a row put at the end, whatever it scores
InsertRow_Append(sorted, row) == Append(sorted, row)

\* a row put into a sequence already in descending peer_score order, behind
\* the rows that score at least as much
InsertRow(sorted, row) ==
    LET k == Cardinality({i \in DOMAIN sorted : sorted[i].peer_score >= row.peer_score})
    IN  SubSeq(sorted, 1, k) \o <<row>> \o SubSeq(sorted, k + 1, Len(sorted))

RECURSIVE SortPrefix(_, _)
SortPrefix(rows, i) ==
    IF i = 0 THEN <<>> ELSE InsertRow(SortPrefix(rows, i - 1), rows[i])

\* sort_values('peer_score', ascending=False); rows of equal score keep their order
sort_values(rows) == SortPrefix(rows, Len(rows))

\* an absent target answered with an empty DataFrame
not_found_Empty == [raised |-> "none", df |-> <<>>]

\* raise ValueError(f"Fund {target_fund_id} not found in dataset")
not_found == [raised |-> "ValueError", df |-> <<>>]

\* a failure where an empty DataFrame is due
empty_result_Raise == [raised |-> "ValueError", df |-> <<>>]

\* return pd.DataFrame()
empty_result == [raised |-> "none", df |-> <<>>]

\* score_peers_for_fund: how it ends and, when it returns, the DataFrame
score_peers_for_fund(w, target_id, df, excl) ==
    LET target_fund_data == SelectSeq(df, LAMBDA row : row.fund_id = target_id)
    IN  IF target_fund_data = <<>>
        THEN not_found
        ELSE LET target_fund == target_fund_data[1]
                 cands == same_category_funds(target_fund, df, excl)
             IN  IF isna(target_fund.morningstar_category)
                 THEN empty_result
                 ELSE IF cands = <<>>
                 THEN empty_result
                 ELSE [raised |-> "none",
                       df |-> sort_values([i \in DOMAIN cands |->
                                               result_row(w, target_fund, cands[i])])]

----------------------------------------------------------------------------
(* Peer group builder *)

Min(a, b) == IF a < b THEN a ELSE b

Max(a, b) == IF a > b THEN a ELSE b

\* no cap at all
head_All(rows, n) == rows

\* DataFrame.head(n): the first n rows; all but the last -n rows when n < 0
head(rows, n) ==
    IF n >= 0 THEN SubSeq(rows, 1, Min(n, Len(rows)))
    ELSE SubSeq(rows, 1, Max(0, Len(rows) + n))

RECURSIVE SumScores(_, _)
SumScores(rows, i) == IF i = 0 THEN 0 ELSE rows[i].peer_score + SumScores(rows, i - 1)

\* round(qualified_peers['peer_score'].mean(), 2) if not qualified_peers.empty else 0
avg_score(qualified_peers) ==
    IF qualified_peers = <<>> THEN 0
    ELSE Round(SumScores(qualified_peers, Len(qualified_peers)), Len(qualified_peers))

score_distribution(peer_scores_df) ==
    ( "90-100"   :> Len(SelectSeq(peer_scores_df, LAMBDA r : r.peer_score >= 9000)) ) @@
    ( "80-89"    :> Len(SelectSeq(peer_scores_df,
                        LAMBDA r : r.peer_score >= 8000 /\ r.peer_score < 9000)) ) @@
    ( "70-79"    :> Len(SelectSeq(peer_scores_df,
                        LAMBDA r : r.peer_score >= 7000 /\ r.peer_score < 8000)) ) @@
    ( "Below 70" :> Len(SelectSeq(peer_scores_df, LAMBDA r : r.peer_score < 7000)) )

\* the record stored when the peer finder returns an empty DataFrame
empty_group(fund_row) ==
    [fund_name            |-> fund_row.fund_name,
     morningstar_category |-> fund_row.morningstar_category,
     peer_count           |-> 0,
     peers                |-> <<>>]

\* the record with the distribution left out
full_group_NoDistribution(fund_row, peer_scores_df, minScore, maxPeers) ==
    LET qualified_peers ==
            head(SelectSeq(peer_scores_df, LAMBDA r : r.peer_score >= minScore), maxPeers)
    IN  [fund_name            |-> fund_row.fund_name,
         morningstar_category |-> fund_row.morningstar_category,
         peer_count           |-> Len(qualified_peers),
         avg_peer_score       |-> avg_score(qualified_peers),
         peers                |-> qualified_peers,
         category_total_funds |-> Len(peer_scores_df) + 1]

\* the record with the statistics taken over the qualified peers
full_group_OverQualified(fund_row, peer_scores_df, minScore, maxPeers) ==
    LET qualified_peers ==
            head(SelectSeq(peer_scores_df, LAMBDA r : r.peer_score >= minScore), maxPeers)
    IN  [fund_name            |-> fund_row.fund_name,
         morningstar_category |-> fund_row.morningstar_category,
         peer_count           |-> Len(qualified_peers),
         avg_peer_score       |-> avg_score(qualified_peers),
         peers                |-> qualified_peers,
         category_total_funds |-> Len(qualified_peers) + 1,
         score_distribution   |-> score_distribution(qualified_peers)]

\* the record stored otherwise
full_group(fund_row, peer_scores_df, minScore, maxPeers) ==
    LET qualified_peers ==
            head(SelectSeq(peer_scores_df, LAMBDA r : r.peer_score >= minScore), maxPeers)
    IN  [fund_name            |-> fund_row.fund_name,
         morningstar_category |-> fund_row.morningstar_category,
         peer_count           |-> Len(qualified_peers),
         avg_peer_score       |-> avg_score(qualified_peers),
         peers                |-> qualified_peers,
         category_total_funds |-> Len(peer_scores_df) + 1,
         score_distribution   |-> score_distribution(peer_scores_df)]

\* no lookup: every listed identifier goes to the peer finder
InUniverse_Always(fund_id, df) == TRUE

\* the target is looked up before the peer finder is called; absent ones are skipped
InUniverse(fund_id, df) == \E i \in DOMAIN df : df[i].fund_id = fund_id

\* max_peers spent as one budget over the whole batch
group_step_SharedCap(w, acc, fund_id, df, minScore, maxPeers, excl) ==
    IF acc.raised # "none" THEN acc
    ELSE IF ~InUniverse(fund_id, df) THEN acc
    ELSE LET fund_row == SelectSeq(df, LAMBDA row : row.fund_id = fund_id)[1]
             res == score_peers_for_fund(w, fund_id, df, excl)
             left == Max(0, maxPeers - Cardinality(DOMAIN acc.peer_groups))
         IN  IF res.raised # "none"
             THEN [raised |-> res.raised, peer_groups |-> acc.peer_groups]
             ELSE [raised |-> "none",
                   peer_groups |->
                       ( fund_id :> ( IF res.df = <<>>
                                      THEN empty_group(fund_row)
                                      ELSE full_group(fund_row, res.df, minScore, left) ) )
                       @@ acc.peer_groups]

\* one pass of the loop body for fund_id, from the mapping built so far
group_step(w, acc, fund_id, df, minScore, maxPeers, excl) ==
    IF acc.raised # "none" THEN acc
    ELSE IF ~InUniverse(fund_id, df) THEN acc
    ELSE LET fund_row == SelectSeq(df, LAMBDA row : row.fund_id = fund_id)[1]
             res == score_peers_for_fund(w, fund_id, df, excl)
         IN  IF res.raised # "none"
             THEN [raised |-> res.raised, peer_groups |-> acc.peer_groups]
             ELSE [raised |-> "none",
                   peer_groups |->
                       ( fund_id :> ( IF res.df = <<>>
                                      THEN empty_group(fund_row)
                                      ELSE full_group(fund_row, res.df, minScore, maxPeers) ) )
                       @@ acc.peer_groups]

RECURSIVE groups_loop(_, _, _, _, _, _, _)
groups_loop(w, ids, i, df, minScore, maxPeers, excl) ==
    IF i = 0 THEN [raised |-> "none", peer_groups |-> <<>>]
    ELSE group_step(w, groups_loop(w, ids, i - 1, df, minScore, maxPeers, excl),
                    ids[i], df, minScore, maxPeers, excl)

\* create_peer_groups_for_firm_funds: how it ends and the mapping it returns
create_peer_groups_for_firm_funds(w, ids, df, minScore, maxPeers, excl) ==
    groups_loop(w, ids, Len(ids), df, minScore, maxPeers, excl)

----------------------------------------------------------------------------
(* Export *)

\* the characters of a long identifier that the sheet name keeps
PrefixLen == 20

s_Summary == <<"S", "u", "m", "m", "a", "r", "y">>

s_peers == <<"_", "p", "e", "e", "r", "s">>

\* f"{fund_id[:20]}_peers" if len(fund_id) > 20 else f"{fund_id}_peers"
sheet_name(fund_id) ==
    IF Len(fund_id) > PrefixLen
    THEN SubSeq(fund_id, 1, PrefixLen) \o s_peers
    ELSE fund_id \o s_peers

\* data.get(key, default)
get(data, key, default) == IF key \in DOMAIN data THEN data[key] ELSE default

\* one row of summary_data
summary_row(fund_id, data) ==
    [Fund_ID           |-> fund_id,
     Fund_Name         |-> data.fund_name,
     Category          |-> data.morningstar_category,
     Total_in_Category |-> get(data, "category_total_funds", 0),
     Qualified_Peers   |-> data.peer_count,
     Avg_Peer_Score    |-> get(data, "avg_peer_score", 0)]

\* peer_groups.items(): the keys in the order the batch first stored them
RECURSIVE items(_, _, _)
items(groups, ids, i) ==
    IF i = 0 THEN <<>>
    ELSE LET before == items(groups, ids, i - 1)
         IN  IF ids[i] \in DOMAIN groups /\ \A j \in DOMAIN before : before[j] # ids[i]
             THEN Append(before, ids[i])
             ELSE before

\* df.to_excel(writer, sheet_name=name) on a writer opened for writing: a new
\* sheet behind the others, or, when the workbook has a sheet of that name,
\* the frame written into that sheet, over what it holds
to_excel(book, name, frame) ==
    IF \E i \in DOMAIN book : book[i].sheet_name = name
    THEN [i \in DOMAIN book |->
             IF book[i].sheet_name = name
             THEN [book[i] EXCEPT !.frames = Append(@, frame)]
             ELSE book[i]]
    ELSE Append(book, [sheet_name |-> name, frames |-> <<frame>>])

\* the loop over the funds: a sheet for each fund that has peers
RECURSIVE fund_sheets(_, _, _, _)
fund_sheets(book, groups, order, i) ==
    IF i = 0 THEN book
    ELSE LET sofar == fund_sheets(book, groups, order, i - 1)
             data == groups[order[i]]
         IN  IF data.peers # <<>>
             THEN to_excel(sofar, sheet_name(order[i]), data.peers)
             ELSE sofar

\* export_peer_groups_to_excel: the workbook written, as the sequence of its
\* sheets, each with its name and the frames written into it
export_peer_groups_to_excel(groups, order) ==
    LET summary_df == [i \in DOMAIN order |-> summary_row(order[i], groups[order[i]])]
    IN  fund_sheets(to_excel(<<>>, s_Summary, summary_df), groups, order, Len(order))

----------------------------------------------------------------------------
(* Inputs *)

Vec(a, b, c, d, e) ==
    ( "currency" :> a ) @@ ( "passive" :> b ) @@ ( "fee" :> c ) @@
    ( "region" :> d ) @@ ( "sector" :> e )

\* weight configurations the scoring runs use: the defaults, a total of 95
\* (rescaled), and all zero
WeightConfigs ==
    { [n |-> Vec(30, 10, 25, 20, 15), d |-> 1],
      [n |-> Vec(30, 10, 25, 20, 10), d |-> 1],
      [n |-> Vec(0, 0, 0, 0, 0), d |-> 1] }

\* weight configurations for the constructor alone: every mix of 0, 20 and 40,
\* the defaults, and totals of 100.0025 and 99.995 (within the tolerance)
ConstructorConfigs ==
    WeightConfigs
    \cup { [n |-> Vec(a, b, c, d, e), d |-> 1] : a, b, c, d, e \in {0, 20, 40} }
    \cup { [n |-> Vec(12001, 4000, 10000, 8000, 6000), d |-> 400],
           [n |-> Vec(6000, 2000, 5000, 4000, 2999), d |-> 200] }

\* attribute rows a fund of the universe is drawn from
Profiles ==
    { [morningstar_category |-> <<"X">>, currency |-> <<"USD">>, is_passive |-> <<FALSE>>,
       fee_band |-> <<2>>, region |-> <<s_developed>>, primary_sector |-> <<s_corporate>>],
      [morningstar_category |-> <<"X">>, currency |-> <<"USD">>, is_passive |-> NaN,
       fee_band |-> <<3>>, region |-> <<s_Developed>>, primary_sector |-> <<s_corporate>>],
      [morningstar_category |-> <<"X">>, currency |-> <<"USD">>, is_passive |-> <<TRUE>>,
       fee_band |-> <<3>>, region |-> <<s_emerging>>, primary_sector |-> <<s_high_yield>>],
      [morningstar_category |-> <<"Y">>, currency |-> <<"EUR">>, is_passive |-> <<TRUE>>,
       fee_band |-> <<5>>, region |-> <<s_emerging>>, primary_sector |-> <<s_government>>],
      [morningstar_category |-> NaN, currency |-> NaN, is_passive |-> <<FALSE>>,
       fee_band |-> NaN, region |-> <<s_other>>, primary_sector |-> NaN] }

\* identifiers: row i of a universe is fund FundIds[i]
FundIds == <<"F1", "F2", "F3", "F4", "F5", "F6">>

FundNames == <<"Fund 1", "Fund 2", "Fund 3", "Fund 4", "Fund 5", "Fund 6">>

\* the universes: up to MaxFunds rows with unique identifiers
Universes ==
    UNION { { [i \in 1..n |->
                 [fund_id |-> FundIds[i], fund_name |-> FundNames[i]] @@ ps[i]] :
              ps \in [1..n -> Profiles] } : n \in 0..MaxFunds }

\* identifiers asked for: those a universe can hold, and so some it lacks
AskedIds == { FundIds[i] : i \in 1..(MaxFunds + 1) }

\* identifiers a batch lists: the first two rows and one no universe holds
BatchIds == { FundIds[1], FundIds[2], FundIds[MaxFunds + 1] }

\* the lists a batch is asked for: up to MaxTargets identifiers, each listed
\* once, and one list that names the same fund twice
TargetLists ==
    { ids \in UNION { [1..n -> BatchIds] : n \in 0..MaxTargets } :
        \A i, j \in DOMAIN ids : ids[i] = ids[j] => i = j }
    \cup { <<FundIds[1], FundIds[1]>> }

\* min_score, max_peers and exclude_passive of a batch: the defaults (70, 30,
\* True), three more so that every two values of two parameters meet, and a
\* cap of 0
BatchParams ==
    { [min_score |-> 7000, max_peers |-> 30, exclude_passive |-> TRUE],
      [min_score |-> 9000, max_peers |-> 1,  exclude_passive |-> TRUE],
      [min_score |-> 7000, max_peers |-> 1,  exclude_passive |-> FALSE],
      [min_score |-> 9000, max_peers |-> 30, exclude_passive |-> FALSE],
      [min_score |-> 7000, max_peers |-> 0,  exclude_passive |-> FALSE] }

\* what the scorers are asked about: present and missing values
Currencies == { NaN, <<"USD">>, <<"EUR">>, <<"GBP">> }

Flags == { NaN, <<TRUE>>, <<FALSE>> }

\* fee bands, also outside 1..5
Bands == { NaN } \cup { <<b>> : b \in (-1)..MaxBand }

RegionLabels ==
    { NaN, <<s_emerging>>, <<s_developed>>, <<s_other>>, <<s_Developed>>,
      <<s_Emerging>>, <<s_OTHER>>, <<s_unknown>>, <<s_Unknown>> }

SectorLabels ==
    { NaN, <<s_government>>, <<s_corporate>>, <<s_Corporate>>, <<s_securitized>>,
      <<s_mixed>>, <<s_high_yield>>, <<s_sovereign>>, <<s_mbs>>, <<s_aggregate>>,
      <<s_corporate_high_yield>>, <<s_agency_mbs>>, <<s_equity>> }

\* the fund dictionaries calculate_peer_score is asked about
ScoreFunds ==
    { [currency |-> c, is_passive |-> p, fee_band |-> f, region |-> r, primary_sector |-> x] :
        c \in { NaN, <<"USD">>, <<"EUR">> },
        p \in { <<FALSE>>, <<TRUE>> },
        f \in { <<1>>, <<2>>, <<3>>, <<5>> },
        r \in { <<s_developed>>, <<s_unknown>> },
        x \in { <<s_corporate>>, <<s_government>> } }

\* the weights calculate_peer_score runs with: the defaults, a total of 95 and
\* five weights of 40 (both rescaled), all the weight on one component, and a
\* total of 100.0025 (within the tolerance, so left as it is)
ScoreWeightConfigs ==
    { [n |-> Vec(30, 10, 25, 20, 15), d |-> 1],
      [n |-> Vec(30, 10, 25, 20, 10), d |-> 1],
      [n |-> Vec(40, 40, 40, 40, 40), d |-> 1],
      [n |-> Vec(100, 0, 0, 0, 0), d |-> 1],
      [n |-> Vec(12001, 4000, 10000, 8000, 6000), d |-> 400] }

\* identifiers for the export: a run of x and a last character, short ones
\* and ones around and over the length the sheet name keeps
LongId(k, c) == [i \in 1..k |-> "x"] \o <<c>>

ExportIds ==
    { LongId(k, c) : k \in { 0, PrefixLen - 2, PrefixLen - 1, PrefixLen, MaxIdLen - 1 },
                     c \in { "a", "b" } }

\* a fund of the export's universe
ExportFund(id, name, cat) ==
    [fund_id |-> id, fund_name |-> name, morningstar_category |-> <<cat>>,
     currency |-> <<"USD">>, is_passive |-> <<FALSE>>, fee_band |-> <<2>>,
     region |-> <<s_developed>>, primary_sector |-> <<s_corporate>>]

\* two funds with unique identifiers, alike in every attribute, of one
\* category or of two
ExportUniverses ==
    { << ExportFund(p[1], "Fund A", "X"), ExportFund(p[2], "Fund B", cat) >> :
        p \in { q \in ExportIds \X ExportIds : q[1] # q[2] }, cat \in { "X", "Y" } }

NoValue == <<>>

----------------------------------------------------------------------------
(* Specification *)

Init ==
    /\ state = "new"
    /\ weights = NoValue
    /\ supplied = NoValue
    /\ op = "none"
    /\ all_funds_df = <<>>
    /\ target_fund_id = ""
    /\ firm_fund_ids = <<>>
    /\ min_score = 0
    /\ max_peers = 0
    /\ exclude_passive = FALSE
    /\ raised = "none"
    /\ results_df = NoValue
    /\ peer_groups = NoValue
    /\ args = NoValue
    /\ score = NoValue
    /\ pair = NoValue
    /\ pair_score = NoValue
    /\ sheets = NoValue

\* FIPeerScoring(...)
New(w) ==
    /\ state = "new"
    /\ LET r == init_weights(w)
       IN  /\ state' = IF r.raised = "none" THEN "ready" ELSE r.raised
           /\ weights' = <<r.weights>>
    /\ supplied' = <<w>>
    /\ UNCHANGED <<op, all_funds_df, target_fund_id, firm_fund_ids, min_score, max_peers,
                   exclude_passive, raised, results_df, peer_groups>>
    /\ UNCHANGED <<args, score, pair, pair_score, sheets>>

\* scorer.score_peers_for_fund(target, df, excl)
ScorePeersForFund(target, df, excl) ==
    /\ state = "ready"
    /\ op = "none"
    /\ LET r == score_peers_for_fund(weights[1], target, df, excl)
       IN  /\ raised' = r.raised
           /\ results_df' = IF r.raised = "none" THEN <<r.df>> ELSE NoValue
    /\ op' = "score_peers_for_fund"
    /\ all_funds_df' = df
    /\ target_fund_id' = target
    /\ exclude_passive' = excl
    /\ UNCHANGED <<state, weights, supplied, firm_fund_ids, min_score, max_peers, peer_groups>>
    /\ UNCHANGED <<args, score, pair, pair_score, sheets>>

\* scorer.create_peer_groups_for_firm_funds(ids, df, minScore, maxPeers, excl)
CreatePeerGroups(ids, df, minScore, maxPeers, excl) ==
    /\ state = "ready"
    /\ op = "none"
    /\ LET r == create_peer_groups_for_firm_funds(weights[1], ids, df, minScore, maxPeers, excl)
       IN  /\ raised' = r.raised
           /\ peer_groups' = IF r.raised = "none" THEN <<r.peer_groups>> ELSE NoValue
    /\ op' = "create_peer_groups_for_firm_funds"
    /\ all_funds_df' = df
    /\ firm_fund_ids' = ids
    /\ min_score' = minScore
    /\ max_peers' = maxPeers
    /\ exclude_passive' = excl
    /\ UNCHANGED <<state, weights, supplied, target_fund_id, results_df>>
    /\ UNCHANGED <<args, score, pair, pair_score, sheets>>

Next ==
    \/ /\ state = "new"
       /\ \E w \in WeightConfigs : New(w)
    \/ /\ state = "ready" /\ op = "none"
       /\ \E target \in AskedIds, df \in Universes, excl \in BOOLEAN :
             ScorePeersForFund(target, df, excl)
    \/ /\ state = "ready" /\ op = "none"
       /\ \E ids \in TargetLists, df \in Universes, p \in BatchParams :
             CreatePeerGroups(ids, df, p.min_score, p.max_peers, p.exclude_passive)

Spec == Init /\ [][Next]_vars

\* the constructor alone, over the wider set of weight configurations
NextNew ==
    /\ state = "new"
    /\ \E w \in ConstructorConfigs : New(w)

SpecNew == Init /\ [][NextNew]_vars

\* a call of one of the five scorers with the arguments a and b
ScorerCall(name, a, b, result) ==
    /\ state = "ready"
    /\ op = "none"
    /\ op' = name
    /\ args' = <<name, a, b>>
    /\ score' = <<result>>
    /\ UNCHANGED <<state, weights, supplied, all_funds_df, target_fund_id, firm_fund_ids,
                   min_score, max_peers, exclude_passive, raised, results_df, peer_groups,
                   pair, pair_score, sheets>>

\* scorer.currency_score(a, b)
CurrencyScore(a, b) == ScorerCall("currency_score", a, b, currency_score(a, b))

\* scorer.passive_score(a, b)
PassiveScore(a, b) == ScorerCall("passive_score", a, b, passive_score(a, b))

\* scorer.fee_band_score(a, b)
FeeBandScore(a, b) == ScorerCall("fee_band_score", a, b, fee_band_score(a, b))

\* scorer.region_score(a, b)
RegionScore(a, b) == ScorerCall("region_score", a, b, region_score(a, b))

\* scorer.sector_score(a, b)
SectorScore(a, b) == ScorerCall("sector_score", a, b, sector_score(a, b))

\* scorer.calculate_peer_score(fund1, fund2)
CalculatePeerScore(fund1, fund2) ==
    /\ state = "ready"
    /\ op = "none"
    /\ op' = "calculate_peer_score"
    /\ pair' = <<fund1, fund2>>
    /\ pair_score' = <<calculate_peer_score(weights[1], fund1, fund2)>>
    /\ UNCHANGED <<state, weights, supplied, all_funds_df, target_fund_id, firm_fund_ids,
                   min_score, max_peers, exclude_passive, raised, results_df, peer_groups,
                   args, score, sheets>>

\* the scorers and the aggregator, called on a scorer object
NextScore ==
    \/ /\ state = "new"
       /\ \E w \in ScoreWeightConfigs : New(w)
    \/ /\ state = "ready" /\ op = "none"
       /\ \E a, b \in Currencies : CurrencyScore(a, b)
    \/ /\ state = "ready" /\ op = "none"
       /\ \E a, b \in Flags : PassiveScore(a, b)
    \/ /\ state = "ready" /\ op = "none"
       /\ \E a, b \in Bands : FeeBandScore(a, b)
    \/ /\ state = "ready" /\ op = "none"
       /\ \E a, b \in RegionLabels : RegionScore(a, b)
    \/ /\ state = "ready" /\ op = "none"
       /\ \E a, b \in SectorLabels : SectorScore(a, b)
    \/ /\ state = "ready" /\ op = "none"
       /\ \E fund1, fund2 \in ScoreFunds : CalculatePeerScore(fund1, fund2)

SpecScore == Init /\ [][NextScore]_vars

\* scorer.export_peer_groups_to_excel(peer_groups), on the mapping the batch
\* returned
ExportPeerGroups ==
    /\ state = "ready"
    /\ op = "create_peer_groups_for_firm_funds"
    /\ raised = "none"
    /\ op' = "export_peer_groups_to_excel"
    /\ sheets' = << export_peer_groups_to_excel(
                       peer_groups[1],
                       items(peer_groups[1], firm_fund_ids, Len(firm_fund_ids))) >>
    /\ UNCHANGED <<state, weights, supplied, all_funds_df, target_fund_id, firm_fund_ids,
                   min_score, max_peers, exclude_passive, raised, results_df, peer_groups,
                   args, score, pair, pair_score>>

\* a batch over a universe of long identifiers, and its export
NextExport ==
    \/ /\ state = "new"
       /\ New([n |-> Vec(30, 10, 25, 20, 15), d |-> 1])
    \/ /\ state = "ready" /\ op = "none"
       /\ \E df \in ExportUniverses, n \in 1..2 :
             CreatePeerGroups([i \in 1..n |-> df[i].fund_id], df, 7000, 30, TRUE)
    \/ ExportPeerGroups

SpecExport == Init /\ [][NextExport]_vars

----------------------------------------------------------------------------
(* What the properties below speak of *)

PeerFinderCalled == op = "score_peers_for_fund"

BatchCalled == op = "create_peer_groups_for_firm_funds"

\* the identifiers of the universe passed to the call
UniverseIds == { all_funds_df[i].fund_id : i \in DOMAIN all_funds_df }

\* the fund of the universe with the identifier
FundOf(fund_id) ==
    all_funds_df[CHOOSE i \in DOMAIN all_funds_df : all_funds_df[i].fund_id = fund_id]

\* rows of the universe, other than the target, carrying the target's category label
Peers(target) ==
    { i \in DOMAIN all_funds_df :
        /\ all_funds_df[i].fund_id # target.fund_id
        /\ target.morningstar_category # NaN
        /\ all_funds_df[i].morningstar_category = target.morningstar_category }

\* the identifiers in a sequence of result rows
RowIds(rows) == { rows[i].fund_id : i \in DOMAIN rows }

Descending(rows) ==
    \A i \in 1..(Len(rows) - 1) : rows[i].peer_score >= rows[i + 1].peer_score

\* the target exists and nothing is left to score against it
Degenerate(t) ==
    /\ t \in UniverseIds
    /\ \/ isna(FundOf(t).morningstar_category)
       \/ \A i \in Peers(FundOf(t)) :
             /\ exclude_passive
             /\ FundOf(t).is_passive = <<FALSE>>
             /\ all_funds_df[i].is_passive = <<TRUE>>

----------------------------------------------------------------------------
C2_PeerFinderOrdering ==
    (PeerFinderCalled /\ raised = "none") =>
        LET target == FundOf(target_fund_id)
            rows == results_df[1]
            cands == same_category_funds(target, all_funds_df, exclude_passive)
        IN  /\ Descending(rows)
            /\ isna(target.morningstar_category) => rows = <<>>
            /\ ~isna(target.morningstar_category) =>
                /\ Len(rows) = Len(cands)
                /\ \A i \in DOMAIN cands :
                      LET row == result_row(weights[1], target, cands[i])
                      IN  \E k \in DOMAIN rows :
                              /\ rows[k] = row
                              /\ \A j \in DOMAIN rows :
                                    rows[j].fund_id = row.fund_id => j = k

\* three candidates that the sort had to reorder
C2_Witness ==
    /\ PeerFinderCalled /\ raised = "none"
    /\ Len(results_df[1]) >= 2
    /\ \E a, b \in DOMAIN all_funds_df :
          /\ a < b
          /\ all_funds_df[b].fund_id = results_df[1][1].fund_id
          /\ all_funds_df[a].fund_id = results_df[1][2].fund_id
          /\ results_df[1][1].peer_score > results_df[1][2].peer_score

\* the peer finder's result for a target of the batch, as the batch got it
PeerScoresOf(fund_id) ==
    score_peers_for_fund(weights[1], fund_id, all_funds_df, exclude_passive).df

\* the targets of the batch that are in the universe
FoundTargets == { firm_fund_ids[i] : i \in DOMAIN firm_fund_ids } \cap UniverseIds

(* C3: threshold and cap. For a found target with a non-empty peer result, *)
(* the group's peers all score at least min_score, there are               *)
(* min(max_peers, number of results meeting the threshold) of them, in     *)
(* non-increasing order, none left out scores more than one kept, and      *)
(* peer_count is their number.                                             *)
C3_ThresholdAndCap ==
    (BatchCalled /\ raised = "none") =>
        \A t \in FoundTargets :
            LET all == PeerScoresOf(t)
                group == peer_groups[1][t]
                meeting == { i \in DOMAIN all : all[i].peer_score >= min_score }
            IN  all # <<>> =>
                /\ \A k \in DOMAIN group.peers : group.peers[k].peer_score >= min_score
                /\ Len(group.peers) = Min(max_peers, Cardinality(meeting))
                /\ Descending(group.peers)
                /\ \A k \in DOMAIN group.peers :
                      \E i \in DOMAIN all : all[i] = group.peers[k]
                /\ Cardinality(RowIds(group.peers)) = Len(group.peers)
                /\ \A i \in DOMAIN all :
                      all[i].fund_id \notin RowIds(group.peers) =>
                          \A k \in DOMAIN group.peers :
                              all[i].peer_score <= group.peers[k].peer_score
                /\ group.peer_count = Len(group.peers)

\* the cap cuts: more results meet the threshold than max_peers lets in
C3_Witness ==
    /\ BatchCalled /\ raised = "none"
    /\ \E t \in FoundTargets :
          LET all == PeerScoresOf(t)
          IN  /\ Cardinality({ i \in DOMAIN all : all[i].peer_score >= min_score })
                    > max_peers
              /\ peer_groups[1][t].peer_count = max_peers
              /\ max_peers > 0

(* C4: NotFound. The peer finder called with an identifier that no fund of *)
(* the universe carries ends in a raised failure and returns nothing, the  *)
(* empty universe included.                                                *)
C4_NotFound ==
    (PeerFinderCalled /\ target_fund_id \notin UniverseIds) =>
        /\ raised # "none"
        /\ results_df = NoValue

\* an absent identifier asked of a universe that holds other funds
C4_Witness ==
    /\ PeerFinderCalled
    /\ target_fund_id \notin UniverseIds
    /\ all_funds_df # <<>>
    /\ raised = "ValueError"

(* C5: BatchSkip. The batch never fails over an absent identifier: it      *)
(* returns, and the keys of the mapping are exactly the listed identifiers *)
(* that the universe holds.                                                *)
C5_BatchSkip ==
    BatchCalled =>
        /\ raised = "none"
        /\ peer_groups # NoValue
        /\ DOMAIN peer_groups[1] = FoundTargets

\* an absent identifier listed first, a found one after it
C5_Witness ==
    /\ BatchCalled /\ raised = "none"
    /\ Len(firm_fund_ids) = 2
    /\ firm_fund_ids[1] \notin UniverseIds
    /\ firm_fund_ids[2] \in DOMAIN peer_groups[1]

GroupKeys == {"fund_name", "morningstar_category", "peer_count", "peers"}

StatKeys == {"avg_peer_score", "category_total_funds", "score_distribution"}

(* C6 as the specification words it: every record of the mapping holds the *)
(* name, the category, the peers, the count, the average, the category     *)
(* size and the distribution, also for a target whose peer result is empty.*)
C6_EveryRecordHasAllFields ==
    (BatchCalled /\ raised = "none") =>
        \A t \in DOMAIN peer_groups[1] :
            GroupKeys \cup StatKeys \subseteq DOMAIN peer_groups[1][t]

(* C6: record shape. Every record holds the target's name and category,    *)
(* the peers and the count; the record of a target with a non-empty peer   *)
(* result holds the average, the category size and the distribution as     *)
(* well, and the record of a target with an empty peer result (category    *)
(* missing, or no candidate left) holds none of those three.               *)
C6_RecordShape ==
    (BatchCalled /\ raised = "none") =>
        \A t \in DOMAIN peer_groups[1] :
            LET group == peer_groups[1][t]
            IN  /\ GroupKeys \subseteq DOMAIN group
                /\ group.fund_name = FundOf(t).fund_name
                /\ group.morningstar_category = FundOf(t).morningstar_category
                /\ IF ~Degenerate(t)
                   THEN DOMAIN group = GroupKeys \cup StatKeys
                   ELSE DOMAIN group = GroupKeys

\* one mapping holding a record of each shape
C6_Witness ==
    /\ BatchCalled /\ raised = "none"
    /\ \E t, u \in DOMAIN peer_groups[1] :
          /\ DOMAIN peer_groups[1][t] = GroupKeys
          /\ isna(FundOf(t).morningstar_category)
          /\ DOMAIN peer_groups[1][u] = GroupKeys \cup StatKeys

\* counts of the unfiltered results per bucket, from the bucket bounds
BucketCounts(all) ==
    ( "90-100"   :> Cardinality({ i \in DOMAIN all : all[i].peer_score >= 9000 }) ) @@
    ( "80-89"    :> Cardinality({ i \in DOMAIN all : all[i].peer_score \in 8000..8999 }) ) @@
    ( "70-79"    :> Cardinality({ i \in DOMAIN all : all[i].peer_score \in 7000..7999 }) ) @@
    ( "Below 70" :> Cardinality({ i \in DOMAIN all : all[i].peer_score < 7000 }) )

\* what C7 says besides the average
StatsBesidesAverage(t) ==
    LET all == PeerScoresOf(t)
        group == peer_groups[1][t]
        dist == group.score_distribution
    IN  /\ group.category_total_funds = Len(all) + 1
        /\ group.peers = <<>> => group.avg_peer_score = 0
        /\ dist = BucketCounts(all)
        /\ dist["90-100"] + dist["80-89"] + dist["70-79"] + dist["Below 70"] = Len(all)

(* C7 as the specification words it: the average is the mean of the        *)
(* qualified peers' scores (besides the category size and the buckets over *)
(* the unfiltered results).                                                *)
C7_AverageIsTheMean ==
    (BatchCalled /\ raised = "none") =>
        \A t \in FoundTargets :
            ~Degenerate(t) =>
                LET group == peer_groups[1][t]
                IN  /\ StatsBesidesAverage(t)
                    /\ group.avg_peer_score * Len(group.peers)
                           = SumScores(group.peers, Len(group.peers))

(* C7: statistics. For a found target with a non-empty peer result the     *)
(* category size is the unfiltered count plus 1; the average is the mean   *)
(* of the qualified peers' scores rounded to two decimals (within half a   *)
(* hundredth of the mean), 0 when none qualifies; the four buckets are     *)
(* counted over the unfiltered results and add up to their number.         *)
C7_Statistics ==
    (BatchCalled /\ raised = "none") =>
        \A t \in FoundTargets :
            ~Degenerate(t) =>
                LET group == peer_groups[1][t]
                    k == Len(group.peers)
                    total == SumScores(group.peers, k)
                IN  /\ StatsBesidesAverage(t)
                    /\ 2 * Abs(group.avg_peer_score * k - total) <= k

\* fewer qualified peers than results, and a mean that is no whole hundredth
C7_Witness ==
    /\ BatchCalled /\ raised = "none"
    /\ \E t \in FoundTargets :
          LET group == peer_groups[1][t]
          IN  /\ PeerScoresOf(t) # <<>>
              /\ group.peer_count > 0
              /\ group.peer_count < Len(PeerScoresOf(t))
              /\ \E u \in FoundTargets :
                    LET g == peer_groups[1][u]
                    IN  /\ PeerScoresOf(u) # <<>>
                        /\ SumScores(g.peers, Len(g.peers)) % Max(1, Len(g.peers)) # 0

(* C8: candidate set. For a target with a category, every row of the peer  *)
(* finder's result is a fund other than the target that carries the        *)
(* target's category; when no passive exclusion applies, every other fund  *)
(* of that category is in the result exactly once.                         *)
C8_CandidateSet ==
    (PeerFinderCalled /\ raised = "none"
        /\ ~isna(FundOf(target_fund_id).morningstar_category)) =>
        LET target == FundOf(target_fund_id)
            rows == results_df[1]
        IN  /\ \A k \in DOMAIN rows :
                /\ rows[k].fund_id # target_fund_id
                /\ rows[k].fund_id \in UniverseIds
                /\ FundOf(rows[k].fund_id).morningstar_category
                       = target.morningstar_category
                /\ rows[k].morningstar_category = target.morningstar_category
            /\ (~exclude_passive \/ target.is_passive # <<FALSE>>) =>
                \A i \in Peers(target) :
                    Cardinality({ k \in DOMAIN rows :
                                    rows[k].fund_id = all_funds_df[i].fund_id }) = 1

\* peers found while the universe also holds a fund of another category and
\* one with no category
C8_Witness ==
    /\ PeerFinderCalled /\ raised = "none"
    /\ ~exclude_passive
    /\ Len(results_df[1]) >= 1
    /\ \E i \in DOMAIN all_funds_df :
          /\ all_funds_df[i].fund_id # target_fund_id
          /\ all_funds_df[i].morningstar_category \notin
                 {NaN, FundOf(target_fund_id).morningstar_category}

(* C9: graceful degradation. A target that exists but has no category, or  *)
(* whose category and passive filters leave no candidate, makes the peer   *)
(* finder return an empty result without raising; in the batch it gets a   *)
(* record with count 0 and no peers, and the other targets get theirs.     *)
C9_GracefulDegradation ==
    /\ (PeerFinderCalled /\ Degenerate(target_fund_id)) =>
          /\ raised = "none"
          /\ results_df = <<<<>>>>
    /\ (BatchCalled /\ \E t \in FoundTargets : Degenerate(t)) =>
          /\ raised = "none"
          /\ peer_groups # NoValue
          /\ DOMAIN peer_groups[1] = FoundTargets
          /\ \A t \in FoundTargets :
                Degenerate(t) =>
                    /\ peer_groups[1][t].peer_count = 0
                    /\ peer_groups[1][t].peers = <<>>

\* a batch of a target without category and, after it, one with peers
C9_Witness ==
    /\ BatchCalled /\ raised = "none"
    /\ Len(firm_fund_ids) = 2
    /\ firm_fund_ids[1] \in UniverseIds
    /\ isna(FundOf(firm_fund_ids[1]).morningstar_category)
    /\ firm_fund_ids[2] \in DOMAIN peer_groups[1]
    /\ peer_groups[1][firm_fund_ids[1]].peer_count = 0
    /\ peer_groups[1][firm_fund_ids[2]].peer_count > 0

\* the weights in use add up to 100
SumsTo100(w) == Sum(w.n) = 100 * w.d

----------------------------------------------------------------------------
(* Scorer and aggregator calls *)

ScorerCalled(name) == op = name

AggregatorCalled == op = "calculate_peer_score"

\* the funds A and B of the worked scenario
ScenarioA ==
    [currency |-> <<"USD">>, is_passive |-> <<FALSE>>, fee_band |-> <<2>>,
     region |-> <<s_developed>>, primary_sector |-> <<s_corporate>>]

ScenarioB ==
    [currency |-> <<"USD">>, is_passive |-> <<FALSE>>, fee_band |-> <<3>>,
     region |-> <<s_developed>>, primary_sector |-> <<s_corporate>>]

\* the aggregator's answer: the five scorers' answers on the attributes of
\* their name, and their weighted sum over the weights in use, unrounded
WeightedSumOfScores ==
    LET fund1 == pair[1]
        fund2 == pair[2]
        scores == pair_score[1].scores
        overall == pair_score[1].overall
        w == weights[1]
    IN  /\ DOMAIN scores = {"currency", "passive", "fee", "region", "sector"}
        /\ scores["currency"] = currency_score(fund1.currency, fund2.currency)
        /\ scores["passive"] = passive_score(fund1.is_passive, fund2.is_passive)
        /\ scores["fee"] = fee_band_score(fund1.fee_band, fund2.fee_band)
        /\ scores["region"] = region_score(fund1.region, fund2.region)
        /\ scores["sector"] = sector_score(fund1.primary_sector, fund2.primary_sector)
        /\ overall.d = 100 * w.d
        /\ overall.n = scores["currency"] * w.n["currency"]
                        + scores["passive"] * w.n["passive"]
                        + scores["fee"] * w.n["fee"]
                        + scores["region"] * w.n["region"]
                        + scores["sector"] * w.n["sector"]

\* the scenario: funds A and B scored with the default weights
ScenarioScored ==
    /\ AggregatorCalled
    /\ pair = <<ScenarioA, ScenarioB>>
    /\ supplied[1].n = Vec(30, 10, 25, 20, 15)
    /\ supplied[1].d = 1

(* C11 as the specification words it: the aggregator returns the five      *)
(* component scores and their weighted sum, and the scenario's pair scores *)
(* 100, 100, 75, 100, 100 and 98.75 overall.                               *)
C11_ScenarioIs9875 ==
    /\ AggregatorCalled => WeightedSumOfScores
    /\ ScenarioScored =>
          /\ pair_score[1].scores = Vec(100, 100, 75, 100, 100)
          /\ 100 * pair_score[1].overall.n = 9875 * pair_score[1].overall.d

(* C11: aggregator. calculate_peer_score returns the five component scores, *)
(* each the scorer's answer on the two funds' attribute of that name, and   *)
(* an overall score that is exactly the sum of component score * weight /   *)
(* 100 over the normalized weights, unrounded; with the default weights,    *)
(* funds A and B of the scenario score 100, 100, 75, 100, 100 and 93.75.    *)
C11_Aggregator ==
    /\ AggregatorCalled => WeightedSumOfScores
    /\ ScenarioScored =>
          /\ pair_score[1].scores = Vec(100, 100, 75, 100, 100)
          /\ 100 * pair_score[1].overall.n = 9375 * pair_score[1].overall.d

\* the scenario's pair scored with the default weights, fee bands 2 and 3
C11_Witness ==
    /\ ScenarioScored
    /\ pair_score[1].scores["fee"] = 75
    /\ pair_score[1].overall = [n |-> 9375, d |-> 100]

ScorerNames ==
    {"currency_score", "passive_score", "fee_band_score", "region_score", "sector_score"}

(* C12: score range. Whatever the two attribute values, present or missing, *)
(* each of the five scorers answers a value from 0 to 100; and for weights  *)
(* in use that add up to 100 the aggregator's overall score is from 0 to    *)
(* 100 for every fund pair.                                                 *)
C12_ScoreRange ==
    /\ op \in ScorerNames => score[1] \in 0..100
    /\ AggregatorCalled =>
          LET overall == pair_score[1].overall
          IN  /\ \A c \in DOMAIN pair_score[1].scores : pair_score[1].scores[c] \in 0..100
              /\ SumsTo100(weights[1]) =>
                    /\ overall.n >= 0
                    /\ overall.n <= 100 * overall.d

\* rescaled weights and a pair that agrees in everything: the overall score
\* is 100
C12_Witness ==
    /\ AggregatorCalled
    /\ weights[1] # supplied[1]
    /\ SumsTo100(weights[1])
    /\ \A c \in DOMAIN pair_score[1].scores : pair_score[1].scores[c] = 100
    /\ pair_score[1].overall.n = 100 * pair_score[1].overall.d

(* C13: scorer symmetry. Each of the five scorers answers the same for     *)
(* (a, b) as for (b, a), missing values included.                          *)
C13_ScorerSymmetry ==
    /\ op = "currency_score" => score[1] = currency_score(args[3], args[2])
    /\ op = "passive_score"  => score[1] = passive_score(args[3], args[2])
    /\ op = "fee_band_score" => score[1] = fee_band_score(args[3], args[2])
    /\ op = "region_score"   => score[1] = region_score(args[3], args[2])
    /\ op = "sector_score"   => score[1] = sector_score(args[3], args[2])

\* fee bands 1 and 4 in this order score 25, as they do in the other order
C13_Witness ==
    /\ op = "fee_band_score"
    /\ args[2] = <<1>> /\ args[3] = <<4>>
    /\ score[1] = 25
    /\ fee_band_score(<<4>>, <<1>>) = 25

\* one of the two arguments of the scorer call is missing
ArgumentMissing == isna(args[2]) \/ isna(args[3])

(* C14: missing-data fallbacks. With at least one argument missing,        *)
(* currency_score answers 25, passive_score 50, and fee_band_score,        *)
(* region_score and sector_score 30, whatever the other argument is, also  *)
(* when both are missing.                                                  *)
C14_MissingFallbacks ==
    (op \in ScorerNames /\ ArgumentMissing) =>
        /\ op = "currency_score" => score[1] = 25
        /\ op = "passive_score" => score[1] = 50
        /\ op \in {"fee_band_score", "region_score", "sector_score"} => score[1] = 30

\* both currencies missing: 25, not the 100 of a match
C14_Witness ==
    /\ op = "currency_score"
    /\ isna(args[2]) /\ isna(args[3])
    /\ score[1] = 25

(* C15: fee band score. For two present integer bands a and b, inside or   *)
(* outside 1..5, the score is max(0, 100 - 25 * |a - b|): 100, 75, 50, 25  *)
(* for a difference of 0, 1, 2, 3 and 0 for a difference of 4 or more.     *)
C15_FeeBandScore ==
    (op = "fee_band_score" /\ ~ArgumentMissing) =>
        LET a == args[2][1]
            b == args[3][1]
            diff == IF a >= b THEN a - b ELSE b - a
        IN  /\ score[1] = Max(0, 100 - 25 * diff)
            /\ diff = 0 => score[1] = 100
            /\ diff = 1 => score[1] = 75
            /\ diff = 2 => score[1] = 50
            /\ diff = 3 => score[1] = 25
            /\ diff >= 4 => score[1] = 0

\* bands outside 1..5 and more than four apart
C15_Witness ==
    /\ op = "fee_band_score"
    /\ args[2] = <<6>> /\ args[3] = <<-1>>
    /\ score[1] = 0

(* C16: region score. Two present labels, compared without regard to case: *)
(* equal labels score 100, also labels that are none of the three known    *)
(* regions; otherwise emerging with other scores 40, developed with other  *)
(* 40, emerging with developed 20, in either order, and every other pair,  *)
(* any pair with an unknown label included, scores 0.                      *)
C16_RegionScore ==
    (op = "region_score" /\ ~ArgumentMissing) =>
        LET r1 == Lower(args[2][1])
            r2 == Lower(args[3][1])
        IN  /\ score[1] = IF r1 = r2 THEN 100
                          ELSE IF {r1, r2} = {s_emerging, s_other} THEN 40
                          ELSE IF {r1, r2} = {s_developed, s_other} THEN 40
                          ELSE IF {r1, r2} = {s_emerging, s_developed} THEN 20
                          ELSE 0
            /\ (args[2] = <<s_Developed>> /\ args[3] = <<s_developed>>) => score[1] = 100
            /\ (args[2] = <<s_Unknown>> /\ args[3] = <<s_unknown>>) => score[1] = 100
            /\ (args[2] = <<s_developed>> /\ args[3] = <<s_unknown>>) => score[1] = 0

\* "OTHER" with "Emerging": 40, the case of the letters set aside
C16_Witness ==
    /\ op = "region_score"
    /\ args[2] = <<s_OTHER>> /\ args[3] = <<s_Emerging>>
    /\ score[1] = 40

\* the four canonical groups and their related terms
SectorGroups ==
    { [name |-> s_government,  terms |-> {s_sovereign, s_municipal, s_agency}],
      [name |-> s_corporate,   terms |-> {s_investment_grade, s_high_yield, s_credit}],
      [name |-> s_securitized, terms |-> {s_mbs, s_abs, s_cmbs}],
      [name |-> s_mixed,       terms |-> {s_multi_sector, s_diversified, s_aggregate}] }

\* a group whose name is in one of the two labels and one of whose terms is in
\* one of the two labels
Related(s1, s2) ==
    \E g \in SectorGroups :
        /\ Contains(s1, g.name) \/ Contains(s2, g.name)
        /\ \E t \in g.terms : Contains(s1, t) \/ Contains(s2, t)

(* C17: sector score. Two present labels, compared without regard to case: *)
(* equal labels score 100; otherwise the pair scores 60 exactly when some   *)
(* canonical group's name is part of at least one of the labels and one of  *)
(* that group's related terms is part of at least one of the labels (the    *)
(* same label or the other one), and 0 if not. Every answer of the scorer   *)
(* is 0, 30, 60 or 100.                                                     *)
C17_SectorScore ==
    op = "sector_score" =>
        /\ score[1] \in {0, 30, 60, 100}
        /\ ~ArgumentMissing =>
              LET s1 == Lower(args[2][1])
                  s2 == Lower(args[3][1])
                  is(a, b) == args[2] = <<a>> /\ args[3] = <<b>>
              IN  /\ score[1] = IF s1 = s2 THEN 100 ELSE IF Related(s1, s2) THEN 60 ELSE 0
                  /\ is(s_Corporate, s_corporate) => score[1] = 100
                  /\ is(s_corporate, s_high_yield) => score[1] = 60
                  /\ is(s_corporate_high_yield, s_equity) => score[1] = 60
                  /\ is(s_agency_mbs, s_securitized) => score[1] = 60
                  /\ is(s_government, s_high_yield) => score[1] = 0
                  /\ is(s_sovereign, s_mbs) => score[1] = 0
                  /\ is(s_equity, s_corporate) => score[1] = 0

\* the group's name and its related term both in the second label
C17_Witness ==
    /\ op = "sector_score"
    /\ args[2] = <<s_equity>> /\ args[3] = <<s_corporate_high_yield>>
    /\ score[1] = 60

\* the record a batch of the one target t gets, with the universe and the
\* parameters of the call
AloneRecord(t) ==
    create_peer_groups_for_firm_funds(weights[1], <<t>>, all_funds_df,
                                      min_score, max_peers, exclude_passive).peer_groups[t]

(* C18: independence of the targets of a batch. The record of a found       *)
(* target is the one a batch of that target alone gets with the same        *)
(* universe and parameters, whatever else the list holds (found, absent or  *)
(* repeated identifiers) and in whatever order.                             *)
C18_BatchIndependence ==
    (BatchCalled /\ raised = "none") =>
        \A t \in FoundTargets :
            /\ t \in DOMAIN peer_groups[1]
            /\ peer_groups[1][t] = AloneRecord(t)

\* two found targets listed against the order of the universe, the second
\* with peers
C18_Witness ==
    /\ BatchCalled /\ raised = "none"
    /\ Len(firm_fund_ids) = 2
    /\ Len(all_funds_df) >= 2
    /\ firm_fund_ids[1] = all_funds_df[2].fund_id
    /\ firm_fund_ids[2] = all_funds_df[1].fund_id
    /\ peer_groups[1][firm_fund_ids[1]].peer_count > 0
    /\ peer_groups[1][firm_fund_ids[2]].peer_count > 0

----------------------------------------------------------------------------
(* Export *)

ExportCalled == op = "export_peer_groups_to_excel"

\* the length a sheet name may have
ExcelLimit == 31

\* the targets of the mapping with at least one qualified peer
SheetFunds == { id \in DOMAIN peer_groups[1] : peer_groups[1][id].peers # <<>> }

(* C19: export sheet naming. Every per-fund sheet name is at most 31         *)
(* characters long, and two distinct targets with at least one qualified    *)
(* peer each get two distinct sheet names, so the workbook holds the        *)
(* summary and one sheet a target, each with that target's one frame, also  *)
(* for identifiers longer than 20 characters.                               *)
C19_SheetNaming ==
    ExportCalled =>
        /\ \A id \in SheetFunds : Len(sheet_name(id)) <= ExcelLimit
        /\ \A a, b \in SheetFunds : a # b => sheet_name(a) # sheet_name(b)
        /\ Len(sheets[1]) = 1 + Cardinality(SheetFunds)
        /\ \A i \in DOMAIN sheets[1] :
              /\ Len(sheets[1][i].sheet_name) <= ExcelLimit
              /\ Len(sheets[1][i].frames) = 1

----------------------------------------------------------------------------
(* Mutual peers *)

\* the rows a result holds for the fund id
RowsFor(df, id) == SelectSeq(df, LAMBDA row : row.fund_id = id)

\* the peer finder's result for the fund id as the target, with the universe
\* and the weights of the call and no passive exclusion
ResultFor(id) == score_peers_for_fund(weights[1], id, all_funds_df, FALSE).df

\* the overall score and the five component scores of a row
PairScores(row) ==
    << row.peer_score, row.currency_score, row.passive_score, row.fee_score,
       row.region_score, row.sector_score >>

(* C20: mutual peers without passive exclusion. With exclude_passive unset   *)
(* and unique identifiers, every other fund B of the universe is in the      *)
(* result for the target A exactly when A is in the result for B, and the    *)
(* overall score and the five component scores of the pair are the same in   *)
(* both results.                                                             *)
C20_MutualPeers ==
    (PeerFinderCalled /\ raised = "none" /\ ~exclude_passive) =>
        \A i \in DOMAIN all_funds_df :
            LET B == all_funds_df[i].fund_id
                forth == RowsFor(results_df[1], B)
                back == RowsFor(ResultFor(B), target_fund_id)
            IN  B # target_fund_id =>
                    /\ Len(forth) = Len(back)
                    /\ Len(forth) <= 1
                    /\ forth # <<>> => PairScores(forth[1]) = PairScores(back[1])

\* a target whose passive flag is missing, with a peer whose flag is not
C20_Witness ==
    /\ PeerFinderCalled /\ raised = "none" /\ ~exclude_passive
    /\ \E i, j \in DOMAIN all_funds_df :
          /\ all_funds_df[i].fund_id = target_fund_id
          /\ isna(all_funds_df[i].is_passive)
          /\ ~isna(all_funds_df[j].is_passive)
          /\ RowsFor(results_df[1], all_funds_df[j].fund_id) # <<>>
          /\ RowsFor(ResultFor(all_funds_df[j].fund_id), target_fund_id) # <<>>

====
